---- MODULE Spec2Model ----
(***************************************************************************)
(* Model of pkg/ddrv/rate.go: the Limiter (bucket registry and global      *)
(* cool-down), its buckets, and the Acquire / Release operations, run by   *)
(* concurrent callers.  Time is counted in ticks of 250ms (= ExtraDelay).  *)
(* Every read or write of a shared field that the source performs outside  *)
(* of a critical section is a step of its own, so that the unsynchronised  *)
(* accesses interleave the way the source allows: such a read sees the     *)
(* value before or the value after a concurrent assignment.  (A time.Time  *)
(* is several words, and a read that overlaps its assignment can see a     *)
(* mixture of both; the statements found to hold below are about writers,  *)
(* which hold the bucket's lock, or about Acquires that no assignment of   *)
(* the field they read overlaps.)                                          *)
(***************************************************************************)
EXTENDS Integers, Sequences, FiniteSets

\* ---------------------------------------------------------------- bounds
MaxTime == 6
MaxCalls == 4
UintWidth == 2

\* ------------------------------------------------------ program constants
\* const ExtraDelay = 250 * time.Millisecond, the unit of time of the model
ExtraDelay == 1
\* time.Second, in units of 250ms
Second == 4
\* the zero time.Time, the value of a field never assigned
ZeroTime == 0
\* bucket{remaining: 1}
InitialRemaining == 1

Threads == {"t1", "t2"}
Keys == {"a", "b"}
\* the keys each caller passes: up to the naming of the keys, one caller stays
\* on one key while the other moves between that key and an unrelated one
KeysOf(t) == IF t = "t1" THEN {"a"} ELSE Keys
None == "none"
NoBucket == 0

\* uint64, scaled to UintWidth bits
UintMod == 2 ^ UintWidth
MaxUint == UintMod - 1

\* ------------------------------------------------------------ header text
\* A header value is a sequence of characters; <<>> is the absent header
\* (http.Header.Get returns "").
Digit == {"0", "1", "2", "3", "4", "5", "6", "7", "8", "9"}
DigitSeq == <<"0", "1", "2", "3", "4", "5", "6", "7", "8", "9">>
DigitVal(c) == (CHOOSE i \in 1..10 : DigitSeq[i] = c) - 1

IsDigits(s) == Len(s) > 0 /\ \A i \in 1..Len(s) : s[i] \in Digit

RECURSIVE Decimal(_)
Decimal(s) ==
    IF s = <<>> THEN 0
    ELSE 10 * Decimal(SubSeq(s, 1, Len(s) - 1)) + DigitVal(s[Len(s)])

Signed(s) == s # <<>> /\ s[1] \in {"+", "-"}
Unsign(s) == IF Signed(s) THEN Tail(s) ELSE s
ParseErr == [ok |-> FALSE, v |-> 0]

\* strconv.Atoi: optional sign, then decimal digits
Atoi(s) ==
    IF IsDigits(Unsign(s))
    THEN [ok |-> TRUE,
          v |-> IF s[1] = "-" THEN 0 - Decimal(Unsign(s)) ELSE Decimal(Unsign(s))]
    ELSE ParseErr

\* strconv.ParseUint(s, 10, 64): digits only, no sign, range error above the
\* largest unsigned value
ParseUint(s) ==
    IF IsDigits(s) /\ Decimal(s) <= MaxUint
    THEN [ok |-> TRUE, v |-> Decimal(s)]
    ELSE ParseErr

\* position of the decimal point, 0 if none
DotAt(s) == IF \E i \in 1..Len(s) : s[i] = "."
            THEN CHOOSE i \in 1..Len(s) : s[i] = "." /\ \A j \in 1..(i - 1) : s[j] # "."
            ELSE 0
IntPart(s) == IF DotAt(s) = 0 THEN s ELSE SubSeq(s, 1, DotAt(s) - 1)
FracPart(s) == IF DotAt(s) = 0 THEN <<>> ELSE SubSeq(s, DotAt(s) + 1, Len(s))
AllDigits(s) == \A i \in 1..Len(s) : s[i] \in Digit
\* the first two fraction digits, as hundredths
Hundredths(f) == Decimal(SubSeq(f \o <<"0", "0">>, 1, 2))

\* strconv.ParseFloat(s, 64), decimal notation: [sign] digits [. digits]
\* with at least one digit.  The value is kept in hundredths of a second.
ParseFloat(s) ==
    LET u == Unsign(s)
        ip == IntPart(u)
        fp == FracPart(u)
        mag == 100 * Decimal(ip) + Hundredths(fp)
    IN IF AllDigits(ip) /\ AllDigits(fp) /\ Len(ip) + Len(fp) > 0
       THEN [ok |-> TRUE, v |-> IF Signed(s) /\ s[1] = "-" THEN 0 - mag ELSE mag]
       ELSE ParseErr

\* int64(unix): truncation toward zero of a value in hundredths
TruncSec(v) == IF v >= 0 THEN v \div 100 ELSE 0 - ((0 - v) \div 100)
\* time.Unix(sec, nsec) in ticks, nsec given in hundredths of a second
Unix(sec, hund) == ((sec * 100 + hund) * Second) \div 100

\* the header values callers pass
RetryAfterVals == {<<>>, <<"x">>, <<"0">>, <<"1">>}
ResetVals == {<<>>, <<"x">>, <<"1", ".", "5">>}
RemainingVals == {<<>>, <<"-", "1">>, <<"1">>, <<"2">>}
GlobalVals == {<<>>, <<"t">>}
\* Release reads each header once: three in the switch of lines 84-110 and
\* X-RateLimit-Remaining after it.  The headers of a call are drawn where
\* they are read.
Headers == [retryAfter : RetryAfterVals, reset : ResetVals, global : GlobalVals]

\* the parse of each of these values, computed once
RetryAfterInt == [s \in RetryAfterVals |-> Atoi(s)]
ResetFloat == [s \in ResetVals |-> ParseFloat(s)]
RemainingUint == [s \in RemainingVals |-> ParseUint(s)]

\* ------------------------------------------------------------------ state
VARIABLES
    clock,      \* time.Now()
    buckets,    \* Limiter.buckets: key -> bucket (index into heap) or NoBucket
    global,     \* Limiter.global
    bucketMu,   \* Limiter.bucketMu: its holder or None
    heap,       \* the allocated bucket objects: [remaining, reset, lock]
    pc,         \* each caller's position
    path,       \* each caller's key argument
    now,        \* Acquire's local now
    b,          \* the caller's local b
    wake,       \* the instant a sleeping caller's time.Sleep may return
    calls,      \* the number of calls made so far
    \* history of the Acquire a caller is in, read by no action:
    g0,             \* l.global as the Acquire's check at line 48 read it
    entry,          \* the key's bucket when the Acquire read now
    globalWritten,  \* a Release has assigned l.global since that check
    released,       \* a Release has run its update on the key's bucket since
    resetWritten,   \* a Release has assigned the reset of the key's bucket since
    \* history of the Release a caller is in, read by no action:
    changed,        \* its switch has changed the bucket's reset or l.global
    present,        \* the headers its switch found present (non-empty)
    \* history of the limiter, read by no action:
    fetched         \* the keys for which an Acquire has passed getBucket

limiter == <<buckets, global, bucketMu, heap>>
locals == <<path, now, b, wake>>
calling == <<g0, entry, globalWritten, released, resetWritten, changed, present>>
hist == <<calling, fetched>>
vars == <<clock, limiter, pc, locals, calls, hist>>

\* NewLimiter(): empty registry, zero global; no caller is inside a call
Init ==
    /\ clock = 1
    /\ buckets = [k \in Keys |-> NoBucket]
    /\ global = ZeroTime
    /\ bucketMu = None
    /\ heap = <<>>
    /\ pc = [t \in Threads |-> "idle"]
    /\ path = [t \in Threads |-> "a"]
    /\ now = [t \in Threads |-> ZeroTime]
    /\ b = [t \in Threads |-> NoBucket]
    /\ wake = [t \in Threads |-> ZeroTime]
    /\ calls = 0
    /\ g0 = [t \in Threads |-> ZeroTime]
    /\ entry = [t \in Threads |-> "none"]
    /\ globalWritten = [t \in Threads |-> FALSE]
    /\ released = [t \in Threads |-> FALSE]
    /\ resetWritten = [t \in Threads |-> FALSE]
    /\ changed = [t \in Threads |-> FALSE]
    /\ present = [t \in Threads |-> {}]
    /\ fetched = {}

\* time.Time.After, time.Time.Sub
After(x, y) == x > y
Sub(x, y) == x - y
\* time.Sleep(d) called at instant c returns no earlier than c + d, and at
\* once when d <= 0
SleepUntil(c, d) == IF d > 0 THEN c + d ELSE c

\* &bucket{remaining: 1}
NewBucket == [remaining |-> InitialRemaining, reset |-> ZeroTime, lock |-> None]

AcquirePcs == {"a_global", "a_globalSub", "a_globalSleep", "a_get", "a_getBody",
               "a_rem0", "a_reset", "a_resetSub", "a_resetSleep", "a_rem",
               "a_lock", "a_dec"}
ReleasePcs == {"r_get", "r_getBody", "r_lock", "r_switch", "r_remaining"}
InAcquire(t) == pc[t] \in AcquirePcs
InRelease(t) == pc[t] \in ReleasePcs
\* t's Acquire has evaluated line 48
PastGlobalCheck(t) == pc[t] \in AcquirePcs \ {"a_global"}

\* a caller returns: its frame is dropped
Return(t) ==
    /\ pc' = [pc EXCEPT ![t] = "idle"]
    /\ path' = [path EXCEPT ![t] = "a"]
    /\ now' = [now EXCEPT ![t] = ZeroTime]
    /\ b' = [b EXCEPT ![t] = NoBucket]
    /\ wake' = [wake EXCEPT ![t] = ZeroTime]

\* ... and, returning from Acquire, the history of that Acquire
AcquireReturn(t) ==
    /\ Return(t)
    /\ g0' = [g0 EXCEPT ![t] = ZeroTime]
    /\ entry' = [entry EXCEPT ![t] = "none"]
    /\ globalWritten' = [globalWritten EXCEPT ![t] = FALSE]
    /\ released' = [released EXCEPT ![t] = FALSE]
    /\ resetWritten' = [resetWritten EXCEPT ![t] = FALSE]
    /\ UNCHANGED <<changed, present, fetched>>

\* a step that only moves the caller to position l
Goto(t, l) == pc' = [pc EXCEPT ![t] = l]
Local(t, l) == Goto(t, l) /\ UNCHANGED <<clock, limiter, locals, calls, hist>>

\* Time passes.  A tick is 250ms: the statements of a call run in no time on
\* that scale, so the clock advances only while every caller is between calls
\* or inside time.Sleep.
Quiescent == \A t \in Threads : pc[t] \in {"idle", "a_globalSleep", "a_resetSleep"}

Tick ==
    /\ clock < MaxTime
    /\ Quiescent
    /\ clock' = clock + 1
    /\ UNCHANGED <<limiter, pc, locals, calls, hist>>

\* ------------------------------------------------------------- getBucket
\* l.bucketMu.Lock()
getBucketLock(t, l) ==
    /\ bucketMu = None
    /\ bucketMu' = t
    /\ Goto(t, l)
    /\ UNCHANGED <<clock, buckets, global, heap, locals, calls, hist>>

\* mutants of getBucketStores: the store flag ignored, and the lookup ignored
getBucketStores_IgnoresStore(k, store) == buckets[k] = NoBucket
getBucketStores_Always(k, store) == store
\* b, ok := l.buckets[path]; if !ok && store { create and insert }
getBucketStores(k, store) == buckets[k] = NoBucket /\ store
\* the heap and the registry after the lookup
getBucketHeap(k, store) ==
    IF getBucketStores(k, store) THEN Append(heap, NewBucket) ELSE heap
\* mutant of getBucketMap: the created bucket is not inserted
getBucketMap_Unstored(k, store) == buckets
\* line 39: l.buckets[path] = b
getBucketMap(k, store) ==
    IF getBucketStores(k, store) THEN [buckets EXCEPT ![k] = Len(heap) + 1] ELSE buckets
\* the bucket returned: the entry of the registry after the lookup
getBucket(k, store) == getBucketMap(k, store)[k]

\* --------------------------------------------------------------- Acquire
\* what an Acquire(k) finds of k's bucket at instant c
OnKey(k) == {u \in Threads : pc[u] # "idle" /\ path[u] = k}
EntryOf(k, c) ==
    IF buckets[k] = NoBucket THEN (IF OnKey(k) = {} THEN "first" ELSE "absent")
    ELSE IF heap[buckets[k]].remaining = 0 /\ After(heap[buckets[k]].reset, c)
    THEN "exhausted"
    ELSE "open"

\* a caller invokes Acquire(path); line 45: now := time.Now()
Acquire_Call(t) ==
    /\ pc[t] = "idle"
    /\ calls < MaxCalls
    /\ calls' = calls + 1
    /\ \E k \in KeysOf(t) :
        /\ path' = [path EXCEPT ![t] = k]
        /\ entry' = [entry EXCEPT ![t] = EntryOf(k, clock)]
    /\ now' = [now EXCEPT ![t] = clock]
    /\ Goto(t, "a_global")
    /\ UNCHANGED <<clock, limiter, b, wake, g0, globalWritten, released, resetWritten, changed, present, fetched>>

\* mutant of Acquire_CheckGlobal: the global cool-down is not consulted
Acquire_CheckGlobal_Skip(t) ==
    /\ pc[t] = "a_global"
    /\ Goto(t, "a_get")
    /\ g0' = [g0 EXCEPT ![t] = global]
    /\ UNCHANGED <<clock, limiter, locals, calls, entry, globalWritten, released, resetWritten, changed, present, fetched>>

\* line 48: if l.global.After(now)
Acquire_CheckGlobal(t) ==
    /\ pc[t] = "a_global"
    /\ Goto(t, IF After(global, now[t]) THEN "a_globalSub" ELSE "a_get")
    /\ g0' = [g0 EXCEPT ![t] = global]
    /\ UNCHANGED <<clock, limiter, locals, calls, entry, globalWritten, released, resetWritten, changed, present, fetched>>

\* mutant of Acquire_SleepGlobal: the sleep is made under the registry lock
Acquire_SleepGlobal_Locked(t) ==
    /\ pc[t] = "a_globalSub"
    /\ bucketMu = None
    /\ bucketMu' = t
    /\ wake' = [wake EXCEPT ![t] = SleepUntil(clock, Sub(global, now[t]) + ExtraDelay)]
    /\ Goto(t, "a_globalSleep")
    /\ UNCHANGED <<clock, buckets, global, heap, path, now, b, calls, hist>>

\* line 49: time.Sleep(l.global.Sub(now) + ExtraDelay), l.global read again
Acquire_SleepGlobal(t) ==
    /\ pc[t] = "a_globalSub"
    /\ wake' = [wake EXCEPT ![t] = SleepUntil(clock, Sub(global, now[t]) + ExtraDelay)]
    /\ Goto(t, "a_globalSleep")
    /\ UNCHANGED <<clock, limiter, path, now, b, calls, hist>>

\* time.Sleep returns
Acquire_WakeGlobal(t) ==
    /\ pc[t] = "a_globalSleep"
    /\ clock >= wake[t]
    /\ wake' = [wake EXCEPT ![t] = ZeroTime]
    /\ Goto(t, "a_get")
    /\ UNCHANGED <<clock, limiter, path, now, b, calls, hist>>

\* line 52: b := l.getBucket(path, true), taking the registry lock
Acquire_GetLock(t) ==
    /\ pc[t] = "a_get"
    /\ getBucketLock(t, "a_getBody")

\* getBucket's lookup-or-create and the deferred Unlock
Acquire_GetBucket(t) ==
    /\ pc[t] = "a_getBody"
    /\ bucketMu = t
    /\ heap' = getBucketHeap(path[t], TRUE)
    /\ buckets' = getBucketMap(path[t], TRUE)
    /\ b' = [b EXCEPT ![t] = getBucket(path[t], TRUE)]
    /\ bucketMu' = None
    /\ fetched' = fetched \cup {path[t]}
    /\ Goto(t, "a_rem0")
    /\ UNCHANGED <<clock, global, path, now, wake, calls, calling>>

\* line 55, left operand: b.remaining == 0
Acquire_CheckExhausted(t) ==
    /\ pc[t] = "a_rem0"
    /\ Local(t, IF heap[b[t]].remaining = 0 THEN "a_reset" ELSE "a_rem")

\* mutant of Acquire_CheckReset: Before in the place of After
Acquire_CheckReset_Before(t) ==
    /\ pc[t] = "a_reset"
    /\ Local(t, IF heap[b[t]].reset < now[t] THEN "a_resetSub" ELSE "a_rem")

\* line 55, right operand: b.reset.After(now)
Acquire_CheckReset(t) ==
    /\ pc[t] = "a_reset"
    /\ Local(t, IF After(heap[b[t]].reset, now[t]) THEN "a_resetSub" ELSE "a_rem")

\* line 56: time.Sleep(b.reset.Sub(now) + ExtraDelay), b.reset read again
Acquire_SleepBucket(t) ==
    /\ pc[t] = "a_resetSub"
    /\ wake' = [wake EXCEPT ![t] =
                   SleepUntil(clock, Sub(heap[b[t]].reset, now[t]) + ExtraDelay)]
    /\ Goto(t, "a_resetSleep")
    /\ UNCHANGED <<clock, limiter, path, now, b, calls, hist>>

\* time.Sleep returns
Acquire_WakeBucket(t) ==
    /\ pc[t] = "a_resetSleep"
    /\ clock >= wake[t]
    /\ wake' = [wake EXCEPT ![t] = ZeroTime]
    /\ Goto(t, "a_rem")
    /\ UNCHANGED <<clock, limiter, path, now, b, calls, hist>>

\* b.remaining-- on a uint64
Decrement(r) == (r - 1) % UintMod

\* mutant of Acquire_CheckRemaining: the decrement is made without the
\* bucket's lock
Acquire_CheckRemaining_Unlocked(t) ==
    /\ pc[t] = "a_rem"
    /\ heap' = IF heap[b[t]].remaining > 0
               THEN [heap EXCEPT ![b[t]].remaining = Decrement(@)]
               ELSE heap
    /\ AcquireReturn(t)
    /\ UNCHANGED <<clock, buckets, global, bucketMu, calls>>

\* mutant of Acquire_CheckRemaining: remaining is not tested
Acquire_CheckRemaining_NoTest(t) ==
    /\ pc[t] = "a_rem"
    /\ Goto(t, "a_lock")
    /\ UNCHANGED <<clock, limiter, locals, calls, hist>>

\* line 59: if b.remaining > 0, read without the bucket's lock; otherwise
\* Acquire returns
Acquire_CheckRemaining(t) ==
    /\ pc[t] = "a_rem"
    /\ IF heap[b[t]].remaining > 0
       THEN Goto(t, "a_lock") /\ UNCHANGED <<locals, hist>>
       ELSE AcquireReturn(t)
    /\ UNCHANGED <<clock, limiter, calls>>

\* line 60: b.lock.Lock()
Acquire_Lock(t) ==
    /\ pc[t] = "a_lock"
    /\ heap[b[t]].lock = None
    /\ heap' = [heap EXCEPT ![b[t]].lock = t]
    /\ Goto(t, "a_dec")
    /\ UNCHANGED <<clock, buckets, global, bucketMu, locals, calls, hist>>


\* lines 61-63: b.remaining--; b.lock.Unlock(); return
Acquire_Decrement(t) ==
    /\ pc[t] = "a_dec"
    /\ heap[b[t]].lock = t
    /\ heap' = [heap EXCEPT ![b[t]].remaining = Decrement(@), ![b[t]].lock = None]
    /\ AcquireReturn(t)
    /\ UNCHANGED <<clock, buckets, global, bucketMu, calls>>

\* --------------------------------------------------------------- Release
\* a caller invokes Release(path, headers)
Release_Call(t) ==
    /\ pc[t] = "idle"
    /\ calls < MaxCalls
    /\ calls' = calls + 1
    /\ \E k \in KeysOf(t) : path' = [path EXCEPT ![t] = k]
    /\ Goto(t, "r_get")
    /\ UNCHANGED <<clock, limiter, now, b, wake, hist>>

\* line 67: b := l.getBucket(path, false), taking the registry lock
Release_GetLock(t) ==
    /\ pc[t] = "r_get"
    /\ getBucketLock(t, "r_getBody")

\* getBucket's lookup and the deferred Unlock; lines 70-72: return if b == nil
Release_GetBucket(t) ==
    /\ pc[t] = "r_getBody"
    /\ bucketMu = t
    /\ heap' = getBucketHeap(path[t], FALSE)
    /\ buckets' = getBucketMap(path[t], FALSE)
    /\ bucketMu' = None
    /\ IF getBucket(path[t], FALSE) = NoBucket
       THEN Return(t)
       ELSE /\ b' = [b EXCEPT ![t] = getBucket(path[t], FALSE)]
            /\ Goto(t, "r_lock")
            /\ UNCHANGED <<path, now, wake>>
    /\ UNCHANGED <<clock, global, calls, hist>>

\* line 73: b.lock.Lock()
Release_Lock(t) ==
    /\ pc[t] = "r_lock"
    /\ heap[b[t]].lock = None
    /\ heap' = [heap EXCEPT ![b[t]].lock = t]
    /\ Goto(t, "r_switch")
    /\ UNCHANGED <<clock, buckets, global, bucketMu, locals, calls, hist>>

\* lines 84-110, the switch on retryAfter and reset.  Each operator gives
\* what the switch leaves: whether Release returns from it, the global
\* cool-down and the bucket's reset.
\* mutant of RetryAfterCase: the reset case is tried first
RetryAfterCase_ResetFirst(h) == h.retryAfter # <<>> /\ h.reset = <<>>
\* line 85: case retryAfter != ""
RetryAfterCase(h) == h.retryAfter # <<>>
ResetCase(h) == ~RetryAfterCase(h) /\ h.reset # <<>>
\* mutant of SwitchFails: the error of ParseFloat is not checked
SwitchFails_RetryAfterOnly(h) == RetryAfterCase(h) /\ ~RetryAfterInt[h.retryAfter].ok
\* lines 86-89 and 101-104: return on err != nil
SwitchFails(h) ==
    \/ RetryAfterCase(h) /\ ~RetryAfterInt[h.retryAfter].ok
    \/ ResetCase(h) /\ ~ResetFloat[h.reset].ok
\* mutant of RetryAt: the seconds are not scaled by time.Second
RetryAt_Unscaled(h, c) == c + RetryAfterInt[h.retryAfter].v
\* line 91: at := time.Now().Add(time.Duration(i) * time.Second)
RetryAt(h, c) == c + RetryAfterInt[h.retryAfter].v * Second
\* mutant of ResetAt: ExtraDelay is not added
ResetAt_NoExtraDelay(h) ==
    LET unix == ResetFloat[h.reset].v
        sec == TruncSec(unix)
    IN Unix(sec, unix - sec * 100)
\* lines 106-109: time.Unix(sec, nsec).Add(ExtraDelay)
ResetAt(h) ==
    LET unix == ResetFloat[h.reset].v
        sec == TruncSec(unix)
    IN Unix(sec, unix - sec * 100) + ExtraDelay
\* line 94: the Retry-After case assigns l.global
WritesGlobal(h) == RetryAfterCase(h) /\ ~SwitchFails(h) /\ h.global # <<>>
\* lines 96-97 and 109: the switch assigns b.reset
WritesReset(h) ==
    ~SwitchFails(h) /\ (IF RetryAfterCase(h) THEN h.global = <<>> ELSE ResetCase(h))
\* lines 94-95
SwitchGlobal(h, c, g) == IF WritesGlobal(h) THEN RetryAt(h, c) ELSE g
\* lines 96-97 and 109
SwitchReset(h, c, r) ==
    IF SwitchFails(h) THEN r
    ELSE IF RetryAfterCase(h) THEN (IF h.global # <<>> THEN r ELSE RetryAt(h, c))
    ELSE IF ResetCase(h) THEN ResetAt(h)
    ELSE r

\* mutant of Unlock: the lock stays held
Unlock_Kept(hp, i) == hp
\* line 74: defer b.lock.Unlock()
Unlock(hp, i) == [hp EXCEPT ![i].lock = None]

\* the Acquires in progress on the key of t's Release take note of it
NoteRelease(t) ==
    released' = [u \in Threads |-> released[u] \/ (InAcquire(u) /\ path[u] = path[t])]

\* the names of the headers of h that are present
PresentIn(h) ==
    {n \in {"Retry-After", "X-RateLimit-Reset", "X-RateLimit-Global"} :
        \/ n = "Retry-After" /\ h.retryAfter # <<>>
        \/ n = "X-RateLimit-Reset" /\ h.reset # <<>>
        \/ n = "X-RateLimit-Global" /\ h.global # <<>>}

\* lines 75-110 for the headers h: the values are read and the switch runs;
\* a parse failure returns through the deferred b.lock.Unlock()
Release_SwitchOn(t, h) ==
    /\ pc[t] = "r_switch"
    /\ heap[b[t]].lock = t
    /\ global' = SwitchGlobal(h, clock, global)
    /\ IF SwitchFails(h)
       THEN /\ heap' = Unlock(heap, b[t])
            /\ Return(t)
       ELSE /\ heap' = [heap EXCEPT ![b[t]].reset = SwitchReset(h, clock, @)]
            /\ Goto(t, "r_remaining")
            /\ UNCHANGED locals
    /\ globalWritten' = [u \in Threads |->
                            globalWritten[u] \/ (PastGlobalCheck(u) /\ WritesGlobal(h))]
    /\ resetWritten' = [u \in Threads |->
                           resetWritten[u] \/
                           (InAcquire(u) /\ path[u] = path[t] /\ WritesReset(h))]
    /\ changed' = [changed EXCEPT ![t] =
                      ~SwitchFails(h) /\
                      (\/ SwitchGlobal(h, clock, global) # global
                       \/ SwitchReset(h, clock, heap[b[t]].reset) # heap[b[t]].reset)]
    /\ present' = [present EXCEPT ![t] = IF SwitchFails(h) THEN {} ELSE PresentIn(h)]
    /\ NoteRelease(t)
    /\ UNCHANGED <<clock, buckets, bucketMu, calls, g0, entry, fetched>>

Release_Switch(t) == \E h \in Headers : Release_SwitchOn(t, h)

\* mutants of UpdateRemaining: the header is not applied, and the error of
\* ParseUint is not checked
UpdateRemaining_Ignored(rem, r) == r
UpdateRemaining_Unchecked(rem, r) == IF rem # <<>> THEN RemainingUint[rem].v ELSE r
\* lines 112-119: the bucket's remaining after the update
UpdateRemaining(rem, r) ==
    IF rem # <<>> /\ RemainingUint[rem].ok THEN RemainingUint[rem].v ELSE r

\* lines 112-121 for the X-RateLimit-Remaining text rem, and the deferred
\* b.lock.Unlock()
Release_RemainingOn(t, rem) ==
    /\ pc[t] = "r_remaining"
    /\ heap[b[t]].lock = t
    /\ heap' = Unlock([heap EXCEPT ![b[t]].remaining = UpdateRemaining(rem, @)], b[t])
    /\ Return(t)
    /\ changed' = [changed EXCEPT ![t] = FALSE]
    /\ present' = [present EXCEPT ![t] = {}]
    /\ NoteRelease(t)
    /\ UNCHANGED <<clock, buckets, global, bucketMu, calls, g0, entry, globalWritten, resetWritten, fetched>>

Release_Remaining(t) == \E rem \in RemainingVals : Release_RemainingOn(t, rem)

\* ------------------------------------------------------------ the system
\* the steps of a call in progress
Run(t) ==
    \/ Acquire_CheckGlobal(t)
    \/ Acquire_SleepGlobal(t)
    \/ Acquire_WakeGlobal(t)
    \/ Acquire_GetLock(t)
    \/ Acquire_GetBucket(t)
    \/ Acquire_CheckExhausted(t)
    \/ Acquire_CheckReset(t)
    \/ Acquire_SleepBucket(t)
    \/ Acquire_WakeBucket(t)
    \/ Acquire_CheckRemaining(t)
    \/ Acquire_Lock(t)
    \/ Acquire_Decrement(t)
    \/ Release_GetLock(t)
    \/ Release_GetBucket(t)
    \/ Release_Lock(t)
    \/ Release_Switch(t)
    \/ Release_Remaining(t)

Step(t) == Acquire_Call(t) \/ Release_Call(t) \/ Run(t)

Next == Tick \/ \E t \in Threads : Step(t)

Spec == Init /\ [][Next]_vars

\* A sequential history: a call is made, and runs, only while no other call
\* is in progress.
Alone(t) == \A u \in Threads \ {t} : pc[u] = "idle"

SeqNext ==
    \/ Tick
    \/ \E t \in Threads :
        \/ Alone(t) /\ Acquire_Call(t)
        \/ Alone(t) /\ Release_Call(t)
        \/ Run(t)

SeqSpec == Init /\ [][SeqNext]_vars

\* Fair scheduling.  Time does not stop: whatever the instant, the clock
\* advances for as long as a sleeping caller waits for a later one.  Calls
\* are made at the initial instant and at the instants so reached; their
\* number being bounded, weak fairness is enough for a caller waiting for a
\* lock.
Elapse ==
    /\ Quiescent
    /\ \E t \in Threads : pc[t] \in {"a_globalSleep", "a_resetSleep"} /\ wake[t] > clock
    /\ clock' = clock + 1
    /\ UNCHANGED <<limiter, pc, locals, calls, hist>>

FairNext == Elapse \/ \E t \in Threads : Step(t)
\* the scheduler runs every caller that can take a step, and the clock
\* advances
Fairness == WF_vars(Elapse) /\ \A t \in Threads : WF_vars(Run(t))
FairSpec == Init /\ [][FairNext]_vars /\ Fairness

\* ------------------------------------------------------------ properties
\* an Acquire past its global cool-down wait, and past its bucket wait
PastGlobalWait == AcquirePcs \ {"a_global", "a_globalSub", "a_globalSleep"}
PastBucketWait == {"a_rem", "a_lock", "a_dec"}
\* t's step returns from Acquire
AcquireReturns(t) == InAcquire(t) /\ pc'[t] = "idle"

\* C1: a bucket's remaining is decremented only when it is > 0 at the moment
\* of the decrement, so that the counter never wraps around to the largest
\* unsigned value: a caller holding the bucket's lock at line 61 always
\* finds remaining > 0.
C1_DecrementOnlyWhenPositive ==
    \A t \in Threads : pc[t] = "a_dec" => heap[b[t]].remaining > 0

\* C2: an Acquire whose check finds the global cool-down G later than its
\* now, whatever the key and whether or not it has a bucket, is not past its
\* global wait, and so has not returned, before G + ExtraDelay.
C2_WaitsForGlobal ==
    \A t \in Threads :
        pc[t] \in PastGlobalWait /\ After(g0[t], now[t]) => clock >= g0[t] + ExtraDelay

\* C3: an Acquire invoked at now on a bucket with remaining = 0 and reset R
\* later than now, with no Release on that key meanwhile, blocks for at least
\* (R - now) + ExtraDelay and is not past its bucket wait before R.
C3_WaitsForReset ==
    \A t \in Threads :
        pc[t] \in PastBucketWait /\ entry[t] = "exhausted" /\ ~released[t]
            => /\ clock - now[t] >= Sub(heap[b[t]].reset, now[t]) + ExtraDelay
               /\ clock >= heap[b[t]].reset

\* C4, as stated: no Acquire returns at an instant earlier than the global
\* cool-down in effect at the moment of return, a Release that assigns the
\* global cool-down while the Acquire is in progress included.
C4_NoReturnBeforeGlobal ==
    [][\A t \in Threads : AcquireReturns(t) => clock >= global]_vars

\* C4, amended: no Acquire returns at an instant earlier than the global
\* cool-down in effect at the moment of return, unless a Release has assigned
\* the global cool-down during or after that Acquire's global check and
\* before its return.
C4_NoReturnBeforeCheckedGlobal ==
    [][\A t \in Threads :
          AcquireReturns(t) /\ ~globalWritten[t] => clock >= global]_vars

\* an Acquire that found the global cool-down in the future is about to
\* return, after it, the cool-down being as its check found it
C4_Witness ==
    \E t \in Threads :
        /\ pc[t] = "a_dec"
        /\ ~globalWritten[t]
        /\ After(global, now[t])
        /\ g0[t] = global
        /\ clock >= global

\* the headers of a Release as the claims speak of them
RetryAfterWellFormed(h) == h.retryAfter # <<>> /\ Atoi(h.retryAfter).ok
RetryAfterMalformed(h) == h.retryAfter # <<>> /\ ~Atoi(h.retryAfter).ok
ResetMalformed(h) == h.retryAfter = <<>> /\ h.reset # <<>> /\ ~ParseFloat(h.reset).ok
\* the headers with a parse failure in the switch, and with a well-formed
\* Retry-After together with, or without, X-RateLimit-Global
SwitchMalformed == {h \in Headers : RetryAfterMalformed(h) \/ ResetMalformed(h)}
GlobalRetryAfter == {h \in Headers : RetryAfterWellFormed(h) /\ h.global # <<>>}
BucketRetryAfter == {h \in Headers : RetryAfterWellFormed(h) /\ h.global = <<>>}
\* the seconds of a well-formed Retry-After
RetrySeconds == [h \in GlobalRetryAfter \cup BucketRetryAfter |-> Atoi(h.retryAfter).v]
\* the malformed X-RateLimit-Remaining texts
RemainingMalformed == {rem \in RemainingVals : rem # <<>> /\ ~ParseUint(rem).ok}
\* t's step leaves its bucket and the global cool-down as they were
Untouched(t) ==
    /\ global' = global
    /\ heap'[b[t]].reset = heap[b[t]].reset
    /\ heap'[b[t]].remaining = heap[b[t]].remaining
\* t's step leaves the buckets other than its own as they were
OthersUnchanged(t) ==
    /\ Len(heap') = Len(heap)
    /\ \A i \in 1..Len(heap) : i # b[t] => heap'[i] = heap[i]

\* C5, as stated: a Release that meets a parse failure in Retry-After,
\* X-RateLimit-Reset or X-RateLimit-Remaining has written nothing when it
\* returns: no step of it changes its bucket's remaining or reset or the
\* global cool-down.
C5_ParseFailureLeavesAll ==
    [][\A t \in Threads :
          /\ pc[t] = "r_switch" =>
                \A h \in SwitchMalformed : Release_SwitchOn(t, h) => Untouched(t)
          /\ pc[t] = "r_remaining" =>
                \A rem \in RemainingMalformed :
                    Release_RemainingOn(t, rem) => Untouched(t) /\ ~changed[t]]_vars

\* C5, amended: a Release that meets a parse failure in Retry-After or in
\* X-RateLimit-Reset writes nothing and returns; one that meets a parse
\* failure in X-RateLimit-Remaining leaves remaining as it was and writes
\* nothing more, what its switch wrote before (the bucket's reset or the
\* global cool-down) staying written.
C5_ParseFailureLeavesRest ==
    [][\A t \in Threads :
          /\ pc[t] = "r_switch" =>
                \A h \in SwitchMalformed :
                    Release_SwitchOn(t, h) => Untouched(t) /\ pc'[t] = "idle"
          /\ pc[t] = "r_remaining" =>
                \A rem \in RemainingMalformed :
                    Release_RemainingOn(t, rem) => Untouched(t) /\ pc'[t] = "idle"]_vars

\* a Release whose switch has written the bucket's reset is at the read of
\* X-RateLimit-Remaining, where it can meet a parse failure
C5_Witness ==
    \E t \in Threads :
        /\ pc[t] = "r_remaining"
        /\ changed[t]
        /\ heap[b[t]].reset # ZeroTime
        /\ RemainingMalformed # {}

\* C6: every step of a Release on a key that has no bucket leaves the
\* registry, every bucket and the global cool-down as they were, and the
\* lookup returns from Release: no bucket is created for the key.
C6_ReleaseUnknownKeyNoOp ==
    [][\A t \in Threads :
          InRelease(t) /\ pc'[t] # pc[t] /\ buckets[path[t]] = NoBucket
          => /\ buckets' = buckets
             /\ heap' = heap
             /\ global' = global
             /\ pc[t] = "r_getBody" => pc'[t] = "idle"]_vars

\* a Release looks up a key without a bucket while another key has one
C6_Witness ==
    \E t \in Threads :
        /\ pc[t] = "r_getBody"
        /\ buckets[path[t]] = NoBucket
        /\ heap # <<>>

\* C7: a Release on an existing bucket with a well-formed Retry-After of n
\* seconds and a non-empty X-RateLimit-Global sets the global cool-down to
\* the call instant + n seconds and leaves the bucket's reset as it was; and
\* an Acquire on any key whose check finds that cool-down later than its now
\* is not past its global wait, and so has not returned, before that
\* instant.
C7_GlobalRetryAfter ==
    /\ [][\A t \in Threads : pc[t] = "r_switch" =>
            \A h \in GlobalRetryAfter :
                Release_SwitchOn(t, h)
                => /\ global' = clock + RetrySeconds[h] * Second
                   /\ heap'[b[t]].reset = heap[b[t]].reset]_vars
    /\ [](\A t \in Threads :
            pc[t] \in PastGlobalWait /\ After(g0[t], now[t]) => clock >= g0[t])

\* C8: a Release with a well-formed Retry-After of n seconds and no
\* X-RateLimit-Global sets its bucket's reset to the call instant + n
\* seconds; no step of that Release changes the global cool-down or the
\* remaining or reset of any other key's bucket.
C8_BucketRetryAfter ==
    [][\A t \in Threads :
          /\ pc[t] = "r_switch" =>
                \A h \in BucketRetryAfter :
                    Release_SwitchOn(t, h)
                    => /\ heap'[b[t]].reset = clock + RetrySeconds[h] * Second
                       /\ global' = global
                       /\ OthersUnchanged(t)
          /\ pc[t] = "r_remaining" /\ Release_Remaining(t)
                => global' = global /\ OthersUnchanged(t)]_vars

\* a Release has set its bucket's reset one second ahead while the other
\* key has a bucket and no global cool-down is set
C8_Witness ==
    \E t \in Threads :
        /\ pc[t] = "r_remaining"
        /\ heap[b[t]].reset = clock + Second
        /\ Len(heap) = 2
        /\ \A i \in 1..Len(heap) : i # b[t] => heap[i].reset = ZeroTime
        /\ global = ZeroTime

\* C9, as stated: the first Acquire of a key never seen before does not
\* sleep on bucket state.
C9_FirstAcquireNoBucketSleep ==
    \A t \in Threads : entry[t] = "first" => pc[t] \notin {"a_resetSub", "a_resetSleep"}

\* C9, amended: the first Acquire of a key never seen before does not sleep
\* on bucket state under any interleaving with other callers' Acquire calls
\* on that key, and with their Release calls on it that assign no reset to
\* its bucket while that Acquire is in progress.
C9_FirstAcquireNoBucketSleepUnlessReset ==
    \A t \in Threads :
        entry[t] = "first" /\ ~resetWritten[t]
            => pc[t] \notin {"a_resetSub", "a_resetSleep"}

\* a first Acquire is past its bucket check although another caller has
\* taken the bucket's first allowance and a Release has run on the key
C9_Witness ==
    \E t \in Threads :
        /\ entry[t] = "first"
        /\ released[t]
        /\ ~resetWritten[t]
        /\ pc[t] = "a_rem"
        /\ heap[b[t]].remaining = 0

\* C10: the callers of a key all hold the bucket the registry has for that
\* key, one bucket was created per key of the registry, and the bucket of a
\* key never changes once created.
C10_OneBucketPerKey ==
    /\ [](\A t \in Threads : b[t] # NoBucket => b[t] = buckets[path[t]])
    /\ [](Len(heap) = Cardinality({k \in Keys : buckets[k] # NoBucket}))
    /\ [][\A k \in Keys : buckets[k] # NoBucket => buckets'[k] = buckets[k]]_vars

\* two concurrent first-time Acquires of one key hold the same bucket
C10_Witness ==
    \E t, u \in Threads :
        /\ t # u
        /\ entry[t] = "first"
        /\ entry[u] = "absent"
        /\ b[t] # NoBucket
        /\ b[u] = b[t]

\* the well-formed X-RateLimit-Remaining texts, and the count each gives
RemainingWellFormed == {rem \in RemainingVals : rem # <<>> /\ ParseUint(rem).ok}
RemainingCount == [rem \in RemainingWellFormed |-> ParseUint(rem).v]
\* an Acquire asleep on its bucket's exhaustion
BucketSleep == {"a_resetSub", "a_resetSleep"}

\* C11: in a sequential history, a freshly created bucket has remaining = 1;
\* the Acquire that created it leaves remaining = 0; a Release whose only
\* rate-limit header is a well-formed X-RateLimit-Remaining = n leaves
\* remaining = n; and an Acquire invoked on a bucket with remaining = n > 0
\* does not sleep on bucket exhaustion and leaves remaining = n - 1.
C11_SequentialScenario ==
    /\ [][/\ Len(heap') > Len(heap) => heap'[Len(heap')].remaining = 1
          /\ \A t \in Threads :
                /\ AcquireReturns(t) /\ entry[t] = "first"
                    => heap'[b[t]].remaining = 0
                /\ pc[t] = "r_remaining" /\ present[t] = {}
                    => \A rem \in RemainingWellFormed :
                           Release_RemainingOn(t, rem)
                           => heap'[b[t]].remaining = RemainingCount[rem]
                /\ AcquireReturns(t) /\ entry[t] = "open" /\ heap[b[t]].remaining > 0
                    => heap'[b[t]].remaining = heap[b[t]].remaining - 1]_vars
    /\ [](\A t \in Threads :
            entry[t] = "open" /\ b[t] # NoBucket /\ heap[b[t]].remaining > 0
            => pc[t] \notin BucketSleep)

\* the Acquire that follows a Release with X-RateLimit-Remaining: 2 alone is
\* about to decrement, no reset or global cool-down ever having been set
C11_Witness ==
    \E t \in Threads :
        /\ pc[t] = "a_dec"
        /\ entry[t] = "open"
        /\ heap[b[t]].remaining = 2
        /\ heap[b[t]].reset = ZeroTime
        /\ global = ZeroTime
        /\ Alone(t)

\* the headers with both Retry-After and X-RateLimit-Reset, split by whether
\* Retry-After parses
BothPresent == {h \in Headers : h.retryAfter # <<>> /\ h.reset # <<>>}
BothRetryParses == {h \in BothPresent : RetryAfterWellFormed(h)}
BothRetryFails == {h \in BothPresent : RetryAfterMalformed(h)}
\* the reset instants that X-RateLimit-Reset values would give
ResetInstants == {ResetAt(h) : h \in {x \in Headers : x.reset # <<>> /\ ParseFloat(x.reset).ok}}

\* C12: when a Release carries both Retry-After and X-RateLimit-Reset, the
\* Retry-After case is the one taken: with a well-formed Retry-After of n
\* seconds the bucket's reset becomes the call instant + n seconds if
\* X-RateLimit-Global is empty and stays as it was otherwise (the reset
\* header's value is not used); with a malformed Retry-After the Release
\* returns at once and writes nothing, whatever X-RateLimit-Reset holds.
C12_RetryAfterPrecedence ==
    [][\A t \in Threads :
         pc[t] = "r_switch" =>
            /\ \A h \in BothRetryParses :
                   Release_SwitchOn(t, h)
                   => /\ heap'[b[t]].reset =
                             IF h.global = <<>> THEN clock + RetrySeconds[h] * Second
                                                ELSE heap[b[t]].reset
                      /\ pc'[t] = "r_remaining"
            /\ \A h \in BothRetryFails :
                   Release_SwitchOn(t, h) => Untouched(t) /\ pc'[t] = "idle"]_vars

\* a Release that found both headers has set reset from Retry-After, to an
\* instant that no X-RateLimit-Reset value gives
C12_Witness ==
    \E t \in Threads :
        /\ pc[t] = "r_remaining"
        /\ present[t] = {"Retry-After", "X-RateLimit-Reset"}
        /\ heap[b[t]].reset = clock + Second
        /\ heap[b[t]].reset \notin ResetInstants

\* the steps of Release that come before its switch
BeforeSwitch == {"r_get", "r_getBody", "r_lock"}
\* t's step returns from Release with its bucket's lock released and the
\* bucket's remaining as it was
ReturnsLeavingRemaining(t) ==
    /\ pc'[t] = "idle"
    /\ heap'[b[t]].lock = None
    /\ heap'[b[t]].remaining = heap[b[t]].remaining

\* C13: a Release on an existing bucket whose Retry-After is present and
\* malformed, or whose Retry-After is absent and X-RateLimit-Reset is
\* present and malformed, returns from the switch without reading
\* X-RateLimit-Remaining; one whose X-RateLimit-Remaining is malformed
\* returns from the update; in both cases the bucket's remaining is as it
\* was, the bucket's lock is released, and no earlier step of the Release
\* has changed any bucket's remaining.
C13_MalformedLeavesRemaining ==
    [][\A t \in Threads :
          /\ pc[t] = "r_switch" =>
                \A h \in SwitchMalformed :
                    Release_SwitchOn(t, h) => ReturnsLeavingRemaining(t)
          /\ pc[t] = "r_remaining" =>
                \A rem \in RemainingMalformed :
                    Release_RemainingOn(t, rem) => ReturnsLeavingRemaining(t)
          /\ pc[t] \in BeforeSwitch /\ pc'[t] # pc[t] =>
                \A i \in 1..Len(heap) : heap'[i].remaining = heap[i].remaining]_vars

\* a Release that found neither Retry-After nor X-RateLimit-Reset holds the
\* lock of a bucket with remaining = 2 and reads X-RateLimit-Remaining,
\* which can be malformed
C13_Witness ==
    \E t \in Threads :
        /\ pc[t] = "r_remaining"
        /\ present[t] = {}
        /\ heap[b[t]].lock = t
        /\ heap[b[t]].remaining = 2
        /\ RemainingMalformed # {}

\* C14: the bucket-exhaustion check of Acquire compares the bucket's reset
\* with the time at which the check is made, and the sleep that follows
\* lasts (reset - that time) + ExtraDelay: an Acquire goes to sleep on its
\* bucket only when reset is after the current time, and wakes at
\* reset + ExtraDelay.
C14_ExhaustionCheckUsesCurrentTime ==
    [][\A t \in Threads :
          /\ Acquire_CheckReset(t) /\ pc'[t] = "a_resetSub"
                => After(heap[b[t]].reset, clock)
          /\ Acquire_SleepBucket(t) /\ After(heap[b[t]].reset, clock)
                => wake'[t] = heap[b[t]].reset + ExtraDelay]_vars

\* an Acquire at one of its two sleeps, from the computation of the
\* duration to the return of time.Sleep
Sleeping == {"a_globalSub", "a_globalSleep", "a_resetSub", "a_resetSleep"}
\* the locks that t holds
HoldsRegistry(t) == bucketMu = t
HoldsBucket(t) == \E i \in 1..Len(heap) : heap[i].lock = t

\* C15: a caller sleeping inside Acquire, in the global cool-down wait or in
\* the bucket-exhaustion wait, holds neither the registry lock nor the lock
\* of any bucket; hence a lock that another caller waits for is never held
\* by a sleeper.
C15_SleepHoldsNoLock ==
    \A t \in Threads :
        pc[t] \in Sleeping => ~HoldsRegistry(t) /\ ~HoldsBucket(t)

\* a caller sleeps on its bucket's exhaustion while a Release, holding that
\* bucket's lock, updates the bucket
C15_Witness ==
    \E t, u \in Threads :
        /\ pc[t] = "a_resetSleep"
        /\ wake[t] > clock
        /\ pc[u] = "r_remaining"
        /\ b[u] = b[t]
        /\ heap[b[t]].lock = u

\* the caller t takes the step
Steps(t) == pc'[t] # pc[t]
\* the step assigns remaining or reset of the existing bucket i
WritesBucket(i) ==
    \/ heap'[i].remaining # heap[i].remaining
    \/ heap'[i].reset # heap[i].reset

\* C16: a step that assigns remaining or reset of a bucket is taken by the
\* caller holding that bucket's lock; a step that changes the registry (a
\* key or a bucket added) is taken by the caller holding the registry lock;
\* a step that assigns the global cool-down is taken by a Release holding
\* the lock of its bucket; no step of an Acquire assigns a bucket's reset or
\* the global cool-down.
C16_WritesUnderLock ==
    [][/\ \A i \in 1..Len(heap) :
             WritesBucket(i) => heap[i].lock \in Threads /\ Steps(heap[i].lock)
       /\ buckets' # buckets \/ Len(heap') # Len(heap)
             => bucketMu \in Threads /\ Steps(bucketMu)
       /\ global' # global
             => \E t \in Threads :
                    InRelease(t) /\ Steps(t) /\ heap[b[t]].lock = t
       /\ \A t \in Threads :
             InAcquire(t) /\ Steps(t)
             => /\ global' = global
                /\ \A i \in 1..Len(heap) : heap'[i].reset = heap[i].reset]_vars

\* an Acquire is about to decrement under its bucket's lock while a Release
\* waits for that lock, a Release having assigned the global cool-down
C16_Witness ==
    \E t, u \in Threads :
        /\ pc[t] = "a_dec"
        /\ heap[b[t]].lock = t
        /\ pc[u] = "r_lock"
        /\ b[u] = b[t]
        /\ global # ZeroTime

\* the keys of the registry
RegistryKeys == {k \in Keys : buckets[k] # NoBucket}

\* C17: the set of registry keys only grows; a key is added only by the
\* fetch-or-create step of an Acquire for that key, never by a step of a
\* Release; and a key is present exactly when some Acquire for it has
\* passed its fetch-or-create step.
C17_RegistryOnlyGrows ==
    /\ [][/\ \A k \in RegistryKeys : buckets'[k] # NoBucket
          /\ \A k \in Keys \ RegistryKeys :
                buckets'[k] # NoBucket
                => \E t \in Threads :
                       pc[t] = "a_getBody" /\ pc'[t] = "a_rem0" /\ path[t] = k
          /\ \A t \in Threads :
                InRelease(t) /\ Steps(t) => buckets' = buckets]_vars
    /\ [](RegistryKeys = fetched)

\* both keys are in the registry, and a Release has looked one of them up
C17_Witness ==
    /\ RegistryKeys = Keys
    /\ \E t \in Threads : pc[t] = "r_lock"

\* the headers with no Retry-After and a well-formed X-RateLimit-Reset, and
\* the instant each names: its seconds since the epoch, in ticks
ResetOnly == {h \in Headers : h.retryAfter = <<>> /\ h.reset # <<>> /\ ParseFloat(h.reset).ok}
ResetTime == [h \in ResetOnly |-> (ParseFloat(h.reset).v * Second) \div 100]

\* C18: a Release on an existing bucket with no Retry-After and a
\* well-formed X-RateLimit-Reset naming the instant T sets the bucket's
\* reset to T + ExtraDelay and leaves the global cool-down as it was; and a
\* Release that passed its switch without a parse failure, whatever case
\* ran, returns with remaining = n when X-RateLimit-Remaining is a
\* well-formed n, and with remaining as it was when that header is absent,
\* the switch itself leaving remaining alone.
C18_ResetAndRemaining ==
    [][\A t \in Threads :
          /\ pc[t] = "r_switch" =>
                \A h \in ResetOnly :
                    Release_SwitchOn(t, h)
                    => /\ heap'[b[t]].reset = ResetTime[h] + ExtraDelay
                       /\ global' = global
                       /\ pc'[t] = "r_remaining"
          /\ pc[t] = "r_switch" /\ Steps(t)
                => heap'[b[t]].remaining = heap[b[t]].remaining
          /\ pc[t] = "r_remaining" =>
                /\ \A rem \in RemainingWellFormed :
                       Release_RemainingOn(t, rem)
                       => heap'[b[t]].remaining = RemainingCount[rem] /\ pc'[t] = "idle"
                /\ Release_RemainingOn(t, <<>>)
                       => heap'[b[t]].remaining = heap[b[t]].remaining /\ pc'[t] = "idle"]_vars

\* a Release that found X-RateLimit-Reset and no Retry-After has set reset
\* to the header's instant + ExtraDelay, ahead of the clock, and reads
\* X-RateLimit-Remaining
C18_Witness ==
    \E t \in Threads :
        /\ pc[t] = "r_remaining"
        /\ "X-RateLimit-Reset" \in present[t]
        /\ "Retry-After" \notin present[t]
        /\ \E h \in ResetOnly : heap[b[t]].reset = ResetTime[h] + ExtraDelay
        /\ heap[b[t]].reset > clock
        /\ heap[b[t]].remaining = 0

\* the positions of an Acquire that sleeps on its bucket or decrements
SleepsOrDecrements == {"a_resetSub", "a_resetSleep", "a_lock", "a_dec"}

\* C20: in a sequential history, remaining grows only by a step of a
\* Release (never by a tick of the clock); an Acquire never assigns the
\* global cool-down, a reset, another bucket, or - its key having a bucket -
\* the registry, and changes its bucket's remaining only when it returns:
\* to r - 1 from r > 0, and not at all from 0; and an Acquire on a bucket
\* with remaining = 0 whose reset is not after the instant of the call
\* neither sleeps on the bucket nor decrements.
C20_ReplenishedOnlyByRelease ==
    /\ [][/\ \A i \in 1..Len(heap) :
                heap'[i].remaining > heap[i].remaining
                => \E t \in Threads : InRelease(t) /\ Steps(t)
          /\ \A t \in Threads :
                InAcquire(t) /\ Steps(t)
                => /\ global' = global
                   /\ \A i \in 1..Len(heap) :
                         /\ heap'[i].reset = heap[i].reset
                         /\ i # b[t] => heap'[i] = heap[i]
                   /\ buckets[path[t]] # NoBucket
                         => buckets' = buckets /\ Len(heap') = Len(heap)
                   /\ b[t] # NoBucket
                         => heap'[b[t]].remaining =
                               IF pc'[t] = "idle" /\ heap[b[t]].remaining > 0
                               THEN heap[b[t]].remaining - 1
                               ELSE heap[b[t]].remaining]_vars
    /\ [](\A t \in Threads :
            /\ InAcquire(t)
            /\ b[t] # NoBucket
            /\ heap[b[t]].remaining = 0
            /\ ~After(heap[b[t]].reset, now[t])
            => pc[t] \notin SleepsOrDecrements)

\* an Acquire that found its bucket exhausted has slept until after the
\* reset and is about to return, remaining being still 0
C20_Witness ==
    \E t \in Threads :
        /\ pc[t] = "a_rem"
        /\ entry[t] = "exhausted"
        /\ clock > now[t]
        /\ clock > heap[b[t]].reset
        /\ heap[b[t]].remaining = 0
        /\ Alone(t)

\* the positions at which a caller requests a lock, and those at which it
\* holds the registry lock or a bucket's lock
Requests == {"a_get", "r_get", "a_lock", "r_lock"}
InGetBucket == {"a_getBody", "r_getBody"}
InBucketLock == {"a_dec", "r_switch", "r_remaining"}
\* the order of the statements of Acquire and of Release
Rank ==
    [l \in AcquirePcs \cup ReleasePcs |->
        CASE l \in {"a_global", "r_get"} -> 1
          [] l \in {"a_globalSub", "r_getBody"} -> 2
          [] l \in {"a_globalSleep", "r_lock"} -> 3
          [] l \in {"a_get", "r_switch"} -> 4
          [] l \in {"a_getBody", "r_remaining"} -> 5
          [] l = "a_rem0" -> 6
          [] l = "a_reset" -> 7
          [] l = "a_resetSub" -> 8
          [] l = "a_resetSleep" -> 9
          [] l = "a_rem" -> 10
          [] l = "a_lock" -> 11
          [] l = "a_dec" -> 12]

\* C19: no caller requests a lock while holding another, and a lock is held
\* only inside getBucket (the registry lock) or between Lock and Unlock of
\* a bucket; every step of a call moves forward in the call's statements,
\* so that no statement, and neither sleep, is executed twice; and under
\* fair scheduling every Acquire and every Release that is called
\* eventually returns.
C19_EveryCallReturns ==
    /\ [](\A t \in Threads :
            /\ pc[t] \in Requests => ~HoldsRegistry(t) /\ ~HoldsBucket(t)
            /\ HoldsRegistry(t) => pc[t] \in InGetBucket
            /\ HoldsBucket(t) => pc[t] \in InBucketLock)
    /\ [][\A t \in Threads :
            pc[t] # "idle" /\ pc'[t] # "idle" /\ Steps(t)
            => Rank[pc'[t]] > Rank[pc[t]]]_vars
    /\ \A t \in Threads : (pc[t] # "idle") ~> (pc[t] = "idle")

\* a caller that has slept in its Acquire waits for the lock of its bucket,
\* which the other caller holds
C19_Witness ==
    \E t, u \in Threads :
        /\ pc[t] = "a_lock"
        /\ clock > now[t]
        /\ pc[u] \in InBucketLock
        /\ b[t] = b[u]
        /\ heap[b[u]].lock = u

====
